---- MODULE Spec2Model ----
(***************************************************************************)
(* Model of lazygit's staging panel: the patch modifier                    *)
(* (pkg/git/patch_modifier.go) and the staging panel controller            *)
(* (pkg/gui/staging_panel.go).                                             *)
(*                                                                         *)
(* Text is modelled at the character level: a string is a sequence of      *)
(* one-character strings, so strings.Split, strings.Join, the header       *)
(* regular expression, strconv.Atoi and strconv.Itoa are computed and not  *)
(* assumed.  Go indices are zero-based; At and Slice translate them.       *)
(***************************************************************************)
EXTENDS Integers, Sequences, FiniteSets, TLC

\* ------------------------------------------------------------------------
\* Bounds of the model
\* ------------------------------------------------------------------------

\* longest generated hunk body (number of lines below the '@@' line)
MaxBody == 3

\* height of the main view, in lines
ViewHeight == 3

\* ------------------------------------------------------------------------
\* Text primitives (Go standard library as used by the source)
\* ------------------------------------------------------------------------

NL == "\n"

AtAt == <<"@", "@">>

DigitChars == <<"0", "1", "2", "3", "4", "5", "6", "7", "8", "9">>

IsDigit(c) == \E i \in 1..10 : DigitChars[i] = c

DigitVal(c) == (CHOOSE i \in 1..10 : DigitChars[i] = c) - 1

\* Go slice element s[i], zero-based
At(s, i) == s[i + 1]

\* Go slice expression s[a:b], zero-based, b exclusive
Slice(s, a, b) == SubSeq(s, a + 1, b)

\* F applied to the value of e, with e evaluated once
WithValue(e, F(_)) == CHOOSE r \in {F(v) : v \in {e}} : TRUE

\* strings.HasPrefix
HasPrefix(line, prefix) ==
    /\ Len(line) >= Len(prefix)
    /\ SubSeq(line, 1, Len(prefix)) = prefix

RECURSIVE SplitAcc(_, _, _)
SplitAcc(text, i, cur) ==
    IF i > Len(text) THEN <<cur>>
    ELSE IF text[i] = NL THEN <<cur>> \o SplitAcc(text, i + 1, <<>>)
    ELSE SplitAcc(text, i + 1, Append(cur, text[i]))

\* strings.Split(text, "\n"): a text that ends with "\n" yields a final
\* empty element
Split(text) == SplitAcc(text, 1, <<>>)

\* the lines of a text whose lines all end with a line terminator
TextLines(text) ==
    LET l == Split(text) IN SubSeq(l, 1, Len(l) - 1)

\* strings.Join(lines, "\n")
RECURSIVE Join(_)
Join(lines) ==
    IF Len(lines) = 0 THEN <<>>
    ELSE IF Len(lines) = 1 THEN lines[1]
    ELSE lines[1] \o <<NL>> \o Join(Tail(lines))

\* strconv.Atoi on a run of decimal digits (the regular expression only
\* ever hands it such a run; the runs of the model are far below the int
\* range, so the range error cannot occur)
RECURSIVE AtoiAcc(_, _)
AtoiAcc(s, acc) ==
    IF Len(s) = 0 THEN acc
    ELSE AtoiAcc(Tail(s), acc * 10 + DigitVal(s[1]))

Atoi(s) == AtoiAcc(s, 0)

RECURSIVE ItoaNat(_)
ItoaNat(n) ==
    IF n < 10 THEN <<DigitChars[n + 1]>>
    ELSE ItoaNat(n \div 10) \o <<DigitChars[(n % 10) + 1]>>

\* strconv.Itoa
Itoa(n) == IF n < 0 THEN <<"-">> \o ItoaNat(0 - n) ELSE ItoaNat(n)

\* last position of the run of digits that starts at position i (1-based)
RECURSIVE DigitRunEnd(_, _)
DigitRunEnd(s, i) ==
    IF i < Len(s) /\ IsDigit(s[i + 1]) THEN DigitRunEnd(s, i + 1) ELSE i

\* the regular expression `\d+ @@` matches at the digit run s[i..j]
CountFieldAt(s, i) ==
    LET j == DigitRunEnd(s, i)
    IN  /\ IsDigit(s[i])
        /\ (i = 1 \/ ~IsDigit(s[i - 1]))
        /\ j + 3 <= Len(s)
        /\ s[j + 1] = " "
        /\ s[j + 2] = "@"
        /\ s[j + 3] = "@"

\* regexp.FindStringSubmatch(`(\d+) @@`)[1]: the digits of the leftmost
\* match, or <<>> with found = FALSE when there is none
FindCountField(s) ==
    LET starts == {i \in 1..Len(s) : CountFieldAt(s, i)}
    IN  IF starts = {} THEN [found |-> FALSE, digits |-> <<>>]
        ELSE LET i == CHOOSE k \in starts : \A m \in starts : k <= m
             IN  [found |-> TRUE, digits |-> SubSeq(s, i, DigitRunEnd(s, i))]

\* regexp.ReplaceAllString(`\d+ @@`, s, repl): every non-overlapping match,
\* scanning from the left
RECURSIVE ReplaceAllCountFields(_, _, _)
ReplaceAllCountFields(s, i, repl) ==
    IF i > Len(s) THEN <<>>
    ELSE IF CountFieldAt(s, i)
         THEN repl \o ReplaceAllCountFields(s, DigitRunEnd(s, i) + 4, repl)
         ELSE <<s[i]>> \o ReplaceAllCountFields(s, i + 1, repl)

\* ------------------------------------------------------------------------
\* pkg/git/patch_modifier.go
\* ------------------------------------------------------------------------

\* a Go (value, error) result; a run-time panic is kept apart from a
\* returned error
Ok(v) == [kind |-> "ok", val |-> v]

Err(e) == [kind |-> "err", val |-> e]

Panic(e) == [kind |-> "panic", val |-> e]

\* getHeaderLength: index of the first line that begins with "@@"
getHeaderLength(patchLines) ==
    LET starts == {i \in 0..(Len(patchLines) - 1) : HasPrefix(At(patchLines, i), AtAt)}
    IN  IF starts = {} THEN Err("CantFindHunks")
        ELSE Ok(CHOOSE i \in starts : \A k \in starts : i <= k)

\* getHunkStart: the last "@@" line at or before lineNumber, 0 when there is
\* none before it; an error when lineNumber is past the last line
getHunkStart(patchLines, lineNumber) ==
    IF lineNumber < 0 \/ lineNumber >= Len(patchLines) THEN Err("CantFindHunk")
    ELSE LET starts == {i \in 0..lineNumber : HasPrefix(At(patchLines, i), AtAt)}
         IN  IF starts = {} THEN Ok(0)
             ELSE Ok(CHOOSE i \in starts : \A k \in starts : k <= i)

\* updatedHeader: the number in front of the closing " @@" plus lineChanges
updatedHeader(currentHeader, lineChanges) ==
    WithValue(FindCountField(currentHeader), LAMBDA m :
        IF ~m.found THEN Panic("index out of range")
        ELSE LET prevLength == Atoi(m.digits)
                 newLength == Itoa(prevLength + lineChanges)
             IN  Ok(ReplaceAllCountFields(currentHeader, 1, newLength \o <<" ">> \o AtAt)))

\* the loop of getModifiedHunkForSingleLine, from line `index` on
RECURSIVE SingleLineLoop(_, _, _, _, _)
SingleLineLoop(patchLines, index, lineNumber, newHunk, lineChanges) ==
    IF index >= Len(patchLines)
    THEN [newHunk |-> newHunk, lineChanges |-> lineChanges]
    ELSE LET line == At(patchLines, index)
         IN  IF HasPrefix(line, AtAt)
             THEN [newHunk |-> Append(newHunk, <<NL>>), lineChanges |-> lineChanges]
             ELSE IF index # lineNumber /\ HasPrefix(line, <<"-">>)
             THEN SingleLineLoop(patchLines, index + 1, lineNumber,
                                 Append(newHunk, <<" ">> \o Tail(line)), lineChanges + 1)
             ELSE IF index # lineNumber /\ HasPrefix(line, <<"+">>)
             THEN SingleLineLoop(patchLines, index + 1, lineNumber, newHunk, lineChanges - 1)
             ELSE SingleLineLoop(patchLines, index + 1, lineNumber,
                                 Append(newHunk, line), lineChanges)

getModifiedHunkForSingleLine(patchLines, hunkStart, lineNumber) ==
    WithValue(SingleLineLoop(patchLines, hunkStart + 1, lineNumber,
                             <<At(patchLines, hunkStart)>>, 0), LAMBDA r :
    WithValue(updatedHeader(r.newHunk[1], r.lineChanges), LAMBDA h :
        IF h.kind # "ok" THEN h
        ELSE Ok(<<h.val>> \o Tail(r.newHunk))))

\* the loop of getModifiedHunkForRemovedLine; the branch on a `\` line after
\* the removed line has an empty body, so such a line is appended like any
\* other
RECURSIVE RemovedLineLoop(_, _, _, _, _)
RemovedLineLoop(patchLines, index, lineNumber, newHunk, lineChanges) ==
    IF index >= Len(patchLines)
    THEN [newHunk |-> newHunk, lineChanges |-> lineChanges]
    ELSE LET line == At(patchLines, index)
         IN  IF HasPrefix(line, AtAt)
             THEN [newHunk |-> Append(newHunk, <<NL>>), lineChanges |-> lineChanges]
             ELSE IF index = lineNumber /\ HasPrefix(line, <<"-">>)
             THEN RemovedLineLoop(patchLines, index + 1, lineNumber,
                                  Append(newHunk, <<" ">> \o Tail(line)), lineChanges + 1)
             ELSE IF index = lineNumber /\ HasPrefix(line, <<"+">>)
             THEN RemovedLineLoop(patchLines, index + 1, lineNumber, newHunk, lineChanges - 1)
             ELSE RemovedLineLoop(patchLines, index + 1, lineNumber,
                                  Append(newHunk, line), lineChanges)

getModifiedHunkForRemovedLine(patchLines, hunkStart, lineNumber) ==
    WithValue(RemovedLineLoop(patchLines, hunkStart + 1, lineNumber,
                              <<At(patchLines, hunkStart)>>, 0), LAMBDA r :
    WithValue(updatedHeader(r.newHunk[1], r.lineChanges), LAMBDA h :
        IF h.kind # "ok" THEN h
        ELSE Ok(<<h.val>> \o Tail(r.newHunk))))

\* ObtainPatchForLine
ObtainPatchForLine(patch, lineNumber) ==
    WithValue(Split(patch), LAMBDA lines :
    LET headerLength == getHeaderLength(lines)
    IN  IF headerLength.kind # "ok" THEN headerLength
        ELSE LET output == Join(Slice(lines, 0, headerLength.val)) \o <<NL>>
                 hunkStart == getHunkStart(lines, lineNumber)
             IN  IF hunkStart.kind # "ok" THEN hunkStart
                 ELSE WithValue(
                          getModifiedHunkForSingleLine(lines, hunkStart.val, lineNumber),
                          LAMBDA hunk : IF hunk.kind # "ok" THEN hunk
                                        ELSE Ok(output \o Join(hunk.val))))

\* ObtainPatchForHunkWithoutLine
ObtainPatchForHunkWithoutLine(patch, lineNumber) ==
    WithValue(Split(patch), LAMBDA lines :
    LET headerLength == getHeaderLength(lines)
    IN  IF headerLength.kind # "ok" THEN headerLength
        ELSE LET output == Join(Slice(lines, 0, headerLength.val)) \o <<NL>>
                 hunkStart == getHunkStart(lines, lineNumber)
             IN  IF hunkStart.kind # "ok" THEN hunkStart
                 ELSE WithValue(
                          getModifiedHunkForRemovedLine(lines, hunkStart.val, lineNumber),
                          LAMBDA hunk : IF hunk.kind # "ok" THEN hunk
                                        ELSE Ok(output \o Join(hunk.val))))

\* HunkPatchIsEmpty without the pastHeader flag
HunkPatchIsEmptyScansHeader(patch) ==
    LET lines == Split(patch)
    IN  ~\E i \in 1..Len(lines) :
            /\ ~HasPrefix(lines[i], AtAt)
            /\ (HasPrefix(lines[i], <<"-">>) \/ HasPrefix(lines[i], <<"+">>))

\* HunkPatchIsEmpty: no line after the first "@@" line begins with - or +
HunkPatchIsEmpty(patch) ==
    LET lines == Split(patch)
    IN  ~\E i \in 1..Len(lines) :
            /\ ~HasPrefix(lines[i], AtAt)
            /\ (HasPrefix(lines[i], <<"-">>) \/ HasPrefix(lines[i], <<"+">>))
            /\ \E k \in 1..(i - 1) : HasPrefix(lines[k], AtAt)

\* ------------------------------------------------------------------------
\* pkg/utils (circular lookups) and the diff parser, from their description
\* ------------------------------------------------------------------------

\* utils.PrevIndex: index of the last element below currentNumber, wrapping
\* to the last index when there is none
PrevIndex(numbers, currentNumber) ==
    LET below == {i \in 0..(Len(numbers) - 1) : At(numbers, i) < currentNumber}
    IN  IF below = {} THEN Len(numbers) - 1
        ELSE CHOOSE i \in below : \A k \in below : k <= i

\* utils.NextIndex: index of the first element above currentNumber, wrapping
\* to 0 when there is none
NextIndex(numbers, currentNumber) ==
    LET above == {i \in 0..(Len(numbers) - 1) : At(numbers, i) > currentNumber}
    IN  IF above = {} THEN 0
        ELSE CHOOSE i \in above : \A k \in above : i <= k

\* the ascending sequence of the elements of a set of integers
RECURSIVE SortedSeq(_)
SortedSeq(S) ==
    IF S = {} THEN <<>>
    ELSE LET m == CHOOSE x \in S : \A y \in S : x <= y
         IN  <<m>> \o SortedSeq(S \ {m})

\* PatchParser.ParsePatch: the indices of the "@@" lines and, after the
\* first of them, of the lines that begin with + or -; fails when the text
\* has no "@@" line
ParsePatch(patch) ==
    WithValue(Split(patch), LAMBDA lines :
    LET hunks == {i \in 0..(Len(lines) - 1) : HasPrefix(At(lines, i), AtAt)}
        stageable == {i \in 0..(Len(lines) - 1) :
                         /\ \E h \in hunks : h < i
                         /\ ~HasPrefix(At(lines, i), AtAt)
                         /\ \/ HasPrefix(At(lines, i), <<"+">>)
                            \/ HasPrefix(At(lines, i), <<"-">>)}
    IN  IF hunks = {} THEN Err("MalformedPatch")
        ELSE Ok([hunkStarts |-> SortedSeq(hunks), stageableLines |-> SortedSeq(stageable)]))

\* ObtainPatchForHunk with the end of the last hunk one line further
ObtainPatchForHunkToLastElement(patch, hunkStarts, currentLine) ==
    WithValue(Split(patch), LAMBDA lines :
    LET hunkStartIndex == PrevIndex(hunkStarts, currentLine)
        hunkStart == At(hunkStarts, hunkStartIndex)
        nextHunkStartIndex == NextIndex(hunkStarts, currentLine)
        hunkEnd == IF nextHunkStartIndex = 0 THEN Len(lines)
                   ELSE At(hunkStarts, nextHunkStartIndex)
        headerLength == getHeaderLength(lines)
    IN  IF hunkStartIndex < 0 \/ hunkStartIndex >= Len(hunkStarts)
        THEN Panic("index out of range")
        ELSE IF headerLength.kind # "ok" THEN headerLength
        ELSE Ok(Join(Slice(lines, 0, headerLength.val)) \o <<NL>>
                \o Join(Slice(lines, hunkStart, hunkEnd)) \o <<NL>>))

\* ObtainPatchForHunk
ObtainPatchForHunk(patch, hunkStarts, currentLine) ==
    WithValue(Split(patch), LAMBDA lines :
    LET hunkStartIndex == PrevIndex(hunkStarts, currentLine)
        hunkStart == At(hunkStarts, hunkStartIndex)
        nextHunkStartIndex == NextIndex(hunkStarts, currentLine)
        hunkEnd == IF nextHunkStartIndex = 0 THEN Len(lines) - 1
                   ELSE At(hunkStarts, nextHunkStartIndex)
        headerLength == getHeaderLength(lines)
    IN  IF hunkStartIndex < 0 \/ hunkStartIndex >= Len(hunkStarts)
        THEN Panic("index out of range")
        ELSE IF headerLength.kind # "ok" THEN headerLength
        ELSE Ok(Join(Slice(lines, 0, headerLength.val)) \o <<NL>>
                \o Join(Slice(lines, hunkStart, hunkEnd)) \o <<NL>>))

\* ------------------------------------------------------------------------
\* Diffs as git prints them (the inputs of the model)
\* ------------------------------------------------------------------------

Markers == {" ", "+", "-"}

\* the text of body line k of a hunk: its marker and one letter
Letters == <<"a", "b", "c", "d", "e", "f">>

\* a start,count range of a hunk header; git leaves out a count of 1
Range(start, count) ==
    Itoa(start) \o (IF count = 1 THEN <<>> ELSE <<",">> \o Itoa(count))

CountOf(body, marks) == Cardinality({k \in 1..Len(body) : body[k] \in marks})

\* the "@@" line git prints for a hunk with this body of markers
HunkHeader(start, body, context) ==
    AtAt \o <<" ", "-">> \o Range(start, CountOf(body, {" ", "-"}))
         \o <<" ", "+">> \o Range(start, CountOf(body, {" ", "+"}))
         \o <<" ">> \o AtAt \o context

HunkLines(start, body, context) ==
    <<HunkHeader(start, body, context)>>
        \o [k \in 1..Len(body) |->
               IF body[k] = "\\" THEN <<"\\", " ", "N">> ELSE <<body[k], Letters[k]>>]

FileHeader == << <<"-", "-", "-", " ", "x">>, <<"+", "+", "+", " ", "x">> >>

\* the text of a diff: every line ends with a line terminator
DiffText(lines) == Join(lines) \o <<NL>>

Bodies == UNION {[1..n -> Markers] : n \in 1..MaxBody}

FirstBody == <<" ", "-", "+">>

SecondBody == <<"-", "+", " ">>

FuncContext == <<" ", "f">>

OneHunk(body) == DiffText(FileHeader \o HunkLines(1, body, <<>>))

TwoHunks(b1, b2) ==
    DiffText(FileHeader \o HunkLines(1, b1, <<>>) \o HunkLines(9, b2, FuncContext))

\* a removal of an unterminated last line and its replacement
NoNewlineDiff == OneHunk(<<" ", "-", "\\", "+">>)

PureDiffs ==
    {OneHunk(b) : b \in Bodies}
        \cup {TwoHunks(b, SecondBody) : b \in Bodies}
        \cup {TwoHunks(FirstBody, b) : b \in Bodies}
        \cup {NoNewlineDiff}

\* a diff whose "@@" line has no closing "@@"
MalformedHeaderDiff(body) ==
    DiffText(FileHeader
                 \o << AtAt \o <<" ", "-">> \o Range(1, CountOf(body, {" ", "-"}))
                            \o <<" ", "+">> \o Range(1, CountOf(body, {" ", "+"})) >>
                 \o Tail(HunkLines(1, body, <<>>)))

\* a diff without any "@@" line
NoHunkDiff(body) == DiffText(FileHeader \o Tail(HunkLines(1, body, <<>>)))

MalformedDiffs ==
    {MalformedHeaderDiff(b) : b \in Bodies} \cup {NoHunkDiff(b) : b \in Bodies}

\* the indices of the lines of a diff
LineIndices(patch) == 0..(Len(Split(patch)) - 2)

\* the indices of the lines of a diff that lie below some "@@" line and are
\* not "@@" lines themselves
BodyLineIndices(patch) ==
    LET lines == Split(patch)
    IN  {i \in 0..(Len(lines) - 2) :
            /\ ~HasPrefix(At(lines, i), AtAt)
            /\ \E h \in 0..i : HasPrefix(At(lines, h), AtAt)}

\* the diffs a refresh of the panel can be handed
ScenarioTwoDiff == OneHunk(<<" ", "+", "+", " ">>)

SingleChangeDiff == OneHunk(<<" ", "+", " ">>)

ReplacedLineDiff == OneHunk(<<"-", "+">>)

ContextOnlyDiff == OneHunk(<<" ">>)

ModeChangeDiff == DiffText(<< <<"o", "l", "d">>, <<"n", "e", "w">> >>)

SessionDiffs ==
    {ScenarioTwoDiff, SingleChangeDiff, ReplacedLineDiff,
     TwoHunks(FirstBody, SecondBody), ContextOnlyDiff, ModeChangeDiff, <<>>}

\* what getSelectedFile and GitCommand.Diff hand to a refresh
RefreshInputs ==
    {[file |-> "NoFiles", unstaged |-> FALSE, diff |-> <<>>],
     [file |-> "Error", unstaged |-> FALSE, diff |-> <<>>],
     [file |-> "File", unstaged |-> FALSE, diff |-> <<>>]}
        \cup {[file |-> "File", unstaged |-> TRUE, diff |-> d] : d \in SessionDiffs}

\* ------------------------------------------------------------------------
\* pkg/gui/staging_panel.go
\* ------------------------------------------------------------------------

\* gui.State.Panels.Staging == nil
NilStaging ==
    [active |-> FALSE, StageableLines |-> <<>>, HunkStarts |-> <<>>,
     SelectedLine |-> 0, Diff |-> <<>>]

\* a returned nil error
Nil == [kind |-> "ok", val |-> "nil"]

NoFocus ==
    [lineNumber |-> 0 - 1, bottomLine |-> 0 - 1, hunkStart |-> 0 - 1, linesHeight |-> 0]

\* state.StageableLines[state.SelectedLine] does not panic
SelectedInRange(st) ==
    0 <= st.SelectedLine /\ st.SelectedLine <= Len(st.StageableLines) - 1

\* focusLineAndHunk with the selected line kept as the bottom line of a
\* hunk that is too big
focusLineAndHunkNoContext(st, linesHeight) ==
    LET lineNumber == At(st.StageableLines, st.SelectedLine)
        nextHunkStartIndex == NextIndex(st.HunkStarts, lineNumber)
        hunkBottom == IF nextHunkStartIndex = 0 THEN linesHeight - 1
                      ELSE At(st.HunkStarts, nextHunkStartIndex) - 1
        hunkStartIndex == PrevIndex(st.HunkStarts, lineNumber)
        hunkStart == IF hunkStartIndex = 0 THEN 0 ELSE At(st.HunkStarts, hunkStartIndex)
    IN  [lineNumber |-> lineNumber, bottomLine |-> hunkBottom, hunkStart |-> hunkStart,
         linesHeight |-> linesHeight]

\* focusLineAndHunk: the arguments it hands to generalFocusLine, the top of
\* the hunk it compares the view height with and the number of lines it
\* read from the view
focusLineAndHunk(st, linesHeight) ==
    LET lineNumber == At(st.StageableLines, st.SelectedLine)
        nextHunkStartIndex == NextIndex(st.HunkStarts, lineNumber)
        hunkBottom == IF nextHunkStartIndex = 0 THEN linesHeight - 1
                      ELSE At(st.HunkStarts, nextHunkStartIndex) - 1
        hunkStartIndex == PrevIndex(st.HunkStarts, lineNumber)
        hunkStart == IF hunkStartIndex = 0 THEN 0 ELSE At(st.HunkStarts, hunkStartIndex)
        bottomLine == IF hunkBottom - hunkStart > ViewHeight THEN lineNumber + 3
                      ELSE hunkBottom
    IN  [lineNumber |-> lineNumber, bottomLine |-> bottomLine, hunkStart |-> hunkStart,
         linesHeight |-> linesHeight]

\* number of lines the main view holds once it shows this diff
LinesHeightOf(diff) == Len(TextLines(diff))

\* refreshStagingPanel: the session, the view and the returned error after
\* it, with what the parser made of the diff
refreshStagingPanel(st, linesHeight, oldFocus, in) ==
    IF in.file = "Error"
    THEN [staging |-> st, viewLines |-> linesHeight, focus |-> oldFocus,
          result |-> Err("getSelectedFile"), parse |-> "none", nstage |-> 0]
    ELSE IF in.file = "NoFiles" \/ ~in.unstaged \/ Len(in.diff) < 2
    THEN [staging |-> NilStaging, viewLines |-> linesHeight, focus |-> oldFocus,
          result |-> Nil, parse |-> "none", nstage |-> 0]
    ELSE WithValue(ParsePatch(in.diff), LAMBDA p :
             IF p.kind # "ok"
             THEN [staging |-> st, viewLines |-> linesHeight, focus |-> oldFocus,
                   result |-> Nil, parse |-> "err", nstage |-> 0]
             ELSE LET end == Len(p.val.stageableLines) - 1
                      selectedLine ==
                          IF st.active
                          THEN IF end < st.SelectedLine THEN end ELSE st.SelectedLine
                          ELSE 0
                      new == [active |-> TRUE,
                              StageableLines |-> p.val.stageableLines,
                              HunkStarts |-> p.val.hunkStarts,
                              SelectedLine |-> selectedLine,
                              Diff |-> in.diff]
                  IN  IF Len(p.val.stageableLines) = 0
                      THEN [staging |-> new, viewLines |-> linesHeight, focus |-> oldFocus,
                            result |-> Nil, parse |-> "ok", nstage |-> 0]
                      ELSE IF ~SelectedInRange(new)
                      THEN [staging |-> new, viewLines |-> linesHeight, focus |-> oldFocus,
                            result |-> Panic("index out of range"), parse |-> "ok",
                            nstage |-> Len(p.val.stageableLines)]
                      ELSE [staging |-> new, viewLines |-> LinesHeightOf(in.diff),
                            focus |-> focusLineAndHunk(new, linesHeight),
                            result |-> Nil, parse |-> "ok",
                            nstage |-> Len(p.val.stageableLines)])

\* the answers of the first, second and third call of ApplyPatch in a
\* handler that makes at most n calls; an answer that is never asked for
\* (past n, after a failed first call, after a successful second call) is
\* fixed to TRUE
ApplyAnswers(n) ==
    {oks \in [1..3 -> BOOLEAN] :
        /\ (n < 2 \/ ~oks[1]) => oks[2]
        /\ (n < 3 \/ ~oks[1] \/ oks[2]) => oks[3]}

\* one call of GitCommand.ApplyPatch and whether it succeeded
ApplyCall(patch, reverse, cached, ok) ==
    [patch |-> patch, reverse |-> reverse, cached |-> cached, ok |-> ok]

\* StageProtocol with the check of the apply error left out
StageProtocolIgnoresApplyError(patch, oks) ==
    [calls |-> <<ApplyCall(patch, FALSE, TRUE, oks[1])>>, result |-> Nil, refresh |-> TRUE]

\* handleStageLineOrHunk from the apply call on: the calls made, the error
\* returned so far and whether the refresh is reached
StageProtocol(patch, oks) ==
    LET c1 == ApplyCall(patch, FALSE, TRUE, oks[1])
    IN  IF ~oks[1]
        THEN [calls |-> <<c1>>, result |-> Err("ApplyError1"), refresh |-> FALSE]
        ELSE [calls |-> <<c1>>, result |-> Nil, refresh |-> TRUE]

\* ResetProtocol with the check of the first apply error left out
ResetProtocolIgnoresReverseError(hunk, emptyPatch, hunkPatch, patchWithoutLine, oks) ==
    LET c1 == ApplyCall(hunkPatch, TRUE, FALSE, oks[1])
        c2 == ApplyCall(patchWithoutLine, FALSE, FALSE, oks[2])
        c3 == ApplyCall(hunkPatch, FALSE, FALSE, oks[3])
    IN  IF ~hunk /\ ~emptyPatch
        THEN IF ~oks[2]
             THEN IF ~oks[3]
                  THEN [calls |-> <<c1, c2, c3>>, result |-> Err("ApplyError3"),
                        refresh |-> FALSE]
                  ELSE [calls |-> <<c1, c2, c3>>, result |-> Panic("ApplyError2"),
                        refresh |-> FALSE]
             ELSE [calls |-> <<c1, c2>>, result |-> Nil, refresh |-> TRUE]
        ELSE [calls |-> <<c1>>, result |-> Nil, refresh |-> TRUE]

\* ResetProtocol with the test of the scope left out of the condition of
\* the forward apply
ResetProtocolForgetsScope(hunk, emptyPatch, hunkPatch, patchWithoutLine, oks) ==
    LET c1 == ApplyCall(hunkPatch, TRUE, FALSE, oks[1])
        c2 == ApplyCall(patchWithoutLine, FALSE, FALSE, oks[2])
        c3 == ApplyCall(hunkPatch, FALSE, FALSE, oks[3])
    IN  IF ~oks[1]
        THEN [calls |-> <<c1>>, result |-> Err("ApplyError1"), refresh |-> FALSE]
        ELSE IF ~emptyPatch
        THEN IF ~oks[2]
             THEN IF ~oks[3]
                  THEN [calls |-> <<c1, c2, c3>>, result |-> Err("ApplyError3"),
                        refresh |-> FALSE]
                  ELSE [calls |-> <<c1, c2, c3>>, result |-> Panic("ApplyError2"),
                        refresh |-> FALSE]
             ELSE [calls |-> <<c1, c2>>, result |-> Nil, refresh |-> TRUE]
        ELSE [calls |-> <<c1>>, result |-> Nil, refresh |-> TRUE]

\* ResetProtocol with the reverse apply restricted to the index
ResetProtocolReverseOnIndex(hunk, emptyPatch, hunkPatch, patchWithoutLine, oks) ==
    LET c1 == ApplyCall(hunkPatch, TRUE, TRUE, oks[1])
        c2 == ApplyCall(patchWithoutLine, FALSE, FALSE, oks[2])
        c3 == ApplyCall(hunkPatch, FALSE, FALSE, oks[3])
    IN  IF ~oks[1]
        THEN [calls |-> <<c1>>, result |-> Err("ApplyError1"), refresh |-> FALSE]
        ELSE IF ~hunk /\ ~emptyPatch
        THEN IF ~oks[2]
             THEN IF ~oks[3]
                  THEN [calls |-> <<c1, c2, c3>>, result |-> Err("ApplyError3"),
                        refresh |-> FALSE]
                  ELSE [calls |-> <<c1, c2, c3>>, result |-> Panic("ApplyError2"),
                        refresh |-> FALSE]
             ELSE [calls |-> <<c1, c2>>, result |-> Nil, refresh |-> TRUE]
        ELSE [calls |-> <<c1>>, result |-> Nil, refresh |-> TRUE]

\* handleResetLineOrHunk from the first apply call on; oks are the answers
\* of the first, second and third call of ApplyPatch
ResetProtocol(hunk, emptyPatch, hunkPatch, patchWithoutLine, oks) ==
    LET c1 == ApplyCall(hunkPatch, TRUE, FALSE, oks[1])
        c2 == ApplyCall(patchWithoutLine, FALSE, FALSE, oks[2])
        c3 == ApplyCall(hunkPatch, FALSE, FALSE, oks[3])
    IN  IF ~oks[1]
        THEN [calls |-> <<c1>>, result |-> Err("ApplyError1"), refresh |-> FALSE]
        ELSE IF ~hunk /\ ~emptyPatch
        THEN IF ~oks[2]
             THEN IF ~oks[3]
                  THEN [calls |-> <<c1, c2, c3>>, result |-> Err("ApplyError3"),
                        refresh |-> FALSE]
                  ELSE [calls |-> <<c1, c2, c3>>, result |-> Panic("ApplyError2"),
                        refresh |-> FALSE]
             ELSE [calls |-> <<c1, c2>>, result |-> Nil, refresh |-> TRUE]
        ELSE [calls |-> <<c1>>, result |-> Nil, refresh |-> TRUE]

\* ------------------------------------------------------------------------
\* State
\* ------------------------------------------------------------------------

VARIABLES
    staging,    \* gui.State.Panels.Staging
    viewLines,  \* number of lines the main view holds (LinesHeight)
    focus,      \* what focusLineAndHunk last handed to generalFocusLine
    lastOp,     \* the handler that ran last: its inputs, calls and outcome
    pdiff,      \* patch modifier on its own: the diff text handed in
    pline,      \* ... and the line index handed in
    pres        \* ... the operation applied last and what it returned

sessionVars == <<staging, viewLines, focus, lastOp>>

pureVars == <<pdiff, pline, pres>>

vars == <<staging, viewLines, focus, lastOp, pdiff, pline, pres>>

NoResult == [op |-> "none", res |-> Ok(<<>>)]

\* the record kept of one handler call: the session before it, how the
\* building of the patches went, the calls of ApplyPatch in order, the
\* outcome, the refreshes it called and what the parser made of the diff
Op(op, hunk, pre, extract, emptyPatch, calls, result, files, panel, parse, nstage) ==
    [op |-> op, hunk |-> hunk, pre |-> pre, extract |-> extract,
     emptyPatch |-> emptyPatch, calls |-> calls, result |-> result,
     filesRefreshed |-> files, panelRefreshed |-> panel,
     parse |-> parse, nstage |-> nstage]

NoOp == Op("none", FALSE, NilStaging, "none", FALSE, <<>>, Nil, 0, 0, "none", 0)

Init ==
    /\ staging = NilStaging
    /\ viewLines = 0
    /\ focus = NoFocus
    /\ lastOp = NoOp
    /\ pdiff = <<>>
    /\ pline = 0
    /\ pres = NoResult

\* a panic that no handler recovers ends the program: no handler runs
\* after it
Running == lastOp.result.kind # "panic"

\* a handler that returns or panics before it reaches the refresh
ReturnEarly(op, hunk, extract, emptyPatch, calls, result) ==
    /\ lastOp' = Op(op, hunk, staging, extract, emptyPatch, calls, result, 0, 0, "none", 0)
    /\ UNCHANGED <<staging, viewLines, focus>>

\* the end of both handlers: refreshFiles, then refreshStagingPanel
RefreshAfter(op, hunk, emptyPatch, calls) ==
    \E filesOk \in BOOLEAN :
        IF ~filesOk
        THEN /\ lastOp' = Op(op, hunk, staging, "ok", emptyPatch, calls,
                             Err("refreshFiles"), 1, 0, "none", 0)
             /\ UNCHANGED <<staging, viewLines, focus>>
        ELSE \E in \in RefreshInputs :
                \E r \in {refreshStagingPanel(staging, viewLines, focus, in)} :
                    /\ staging' = r.staging
                    /\ viewLines' = r.viewLines
                    /\ focus' = r.focus
                    /\ lastOp' = Op(op, hunk, staging, "ok", emptyPatch, calls,
                                    r.result, 1, 1, r.parse, r.nstage)

\* the panel is refreshed on its own (a file is selected, the files changed)
RefreshStagingPanel ==
    /\ Running
    /\ \E in \in RefreshInputs :
          \E r \in {refreshStagingPanel(staging, viewLines, focus, in)} :
              /\ staging' = r.staging
              /\ viewLines' = r.viewLines
              /\ focus' = r.focus
              /\ lastOp' = Op("refresh", FALSE, staging, "none", FALSE, <<>>,
                              r.result, 0, 1, r.parse, r.nstage)
    /\ UNCHANGED pureVars

handleStagingEscape ==
    /\ Running
    /\ staging.active
    /\ staging' = NilStaging
    /\ lastOp' = Op("escape", FALSE, staging, "none", FALSE, <<>>, Nil, 0, 0, "none", 0)
    /\ UNCHANGED <<viewLines, focus>>
    /\ UNCHANGED pureVars

\* CycleHunkIndex with the lookup of the stageable line made from the start
\* of the current hunk
CycleHunkIndexOfCurrentHunk(state, prev) ==
    LET lineNumbers == state.StageableLines
        currentLine == At(lineNumbers, state.SelectedLine)
        currentHunkIndex == PrevIndex(state.HunkStarts, currentLine)
    IN  NextIndex(lineNumbers, At(state.HunkStarts, currentHunkIndex))

\* CycleHunkIndex without the wrap at either end of HunkStarts
CycleHunkIndexNoWrap(state, prev) ==
    LET lineNumbers == state.StageableLines
        currentLine == At(lineNumbers, state.SelectedLine)
        currentHunkIndex == PrevIndex(state.HunkStarts, currentLine)
        newHunkIndex ==
            IF prev
            THEN IF currentHunkIndex = 0 THEN 0
                 ELSE currentHunkIndex - 1
            ELSE IF currentHunkIndex = Len(state.HunkStarts) - 1 THEN currentHunkIndex
                 ELSE currentHunkIndex + 1
    IN  NextIndex(lineNumbers, At(state.HunkStarts, newHunkIndex))

\* handleCycleHunk: the value it assigns to state.SelectedLine
CycleHunkIndex(state, prev) ==
    LET lineNumbers == state.StageableLines
        currentLine == At(lineNumbers, state.SelectedLine)
        currentHunkIndex == PrevIndex(state.HunkStarts, currentLine)
        newHunkIndex ==
            IF prev
            THEN IF currentHunkIndex = 0 THEN Len(state.HunkStarts) - 1
                 ELSE currentHunkIndex - 1
            ELSE IF currentHunkIndex = Len(state.HunkStarts) - 1 THEN 0
                 ELSE currentHunkIndex + 1
    IN  NextIndex(lineNumbers, At(state.HunkStarts, newHunkIndex))

\* CycleLineIndex with the cursor, an index, handed to the lookups in the
\* place of the line number under it
CycleLineIndexByCursor(state, prev) ==
    LET lineNumbers == state.StageableLines
    IN  IF prev THEN PrevIndex(lineNumbers, state.SelectedLine)
        ELSE NextIndex(lineNumbers, state.SelectedLine)

\* handleCycleLine: the value it assigns to state.SelectedLine
CycleLineIndex(state, prev) ==
    LET lineNumbers == state.StageableLines
        currentLine == At(lineNumbers, state.SelectedLine)
    IN  IF prev THEN PrevIndex(lineNumbers, currentLine)
        ELSE NextIndex(lineNumbers, currentLine)

handleCycleHunk(prev) ==
    /\ Running
    /\ staging.active
    /\ IF ~SelectedInRange(staging)
       THEN ReturnEarly("cycleHunk", prev, "none", FALSE, <<>>, Panic("index out of range"))
       ELSE LET state == staging
                new == [state EXCEPT !.SelectedLine = CycleHunkIndex(state, prev)]
            IN  /\ staging' = new
                /\ focus' = focusLineAndHunk(new, viewLines)
                /\ lastOp' = Op("cycleHunk", prev, staging, "none", FALSE, <<>>, Nil,
                                0, 0, "none", 0)
                /\ UNCHANGED viewLines
    /\ UNCHANGED pureVars

\* handleCycleLine followed by the refresh that ends stage and unstage
handleCycleLineRefreshing(prev) ==
    /\ Running
    /\ staging.active
    /\ RefreshAfter("cycleLine", prev, FALSE, <<>>)
    /\ UNCHANGED pureVars

handleCycleLine(prev) ==
    /\ Running
    /\ staging.active
    /\ IF ~SelectedInRange(staging)
       THEN ReturnEarly("cycleLine", prev, "none", FALSE, <<>>, Panic("index out of range"))
       ELSE LET state == staging
                new == [state EXCEPT !.SelectedLine = CycleLineIndex(state, prev)]
            IN  /\ staging' = new
                /\ focus' = focusLineAndHunk(new, viewLines)
                /\ lastOp' = Op("cycleLine", prev, staging, "none", FALSE, <<>>, Nil,
                                0, 0, "none", 0)
                /\ UNCHANGED viewLines
    /\ UNCHANGED pureVars

handleStageLineOrHunk(hunk) ==
    /\ Running
    /\ staging.active
    /\ IF ~SelectedInRange(staging)
       THEN ReturnEarly("stage", hunk, "none", FALSE, <<>>, Panic("index out of range"))
       ELSE LET state == staging
                currentLine == At(state.StageableLines, state.SelectedLine)
            IN  \E patch \in {IF hunk
                              THEN ObtainPatchForHunk(state.Diff, state.HunkStarts, currentLine)
                              ELSE ObtainPatchForLine(state.Diff, currentLine)} :
                IF patch.kind # "ok"
                THEN ReturnEarly("stage", hunk, patch.kind, FALSE, <<>>,
                                 [kind |-> patch.kind, val |-> patch.val])
                ELSE \E oks \in ApplyAnswers(1) :
                        \E r \in {StageProtocol(patch.val, oks)} :
                            IF r.refresh
                            THEN RefreshAfter("stage", hunk, FALSE, r.calls)
                            ELSE ReturnEarly("stage", hunk, "ok", FALSE, r.calls, r.result)
    /\ UNCHANGED pureVars

handleResetLineOrHunk(hunk) ==
    /\ Running
    /\ staging.active
    /\ IF ~SelectedInRange(staging)
       THEN ReturnEarly("unstage", hunk, "none", FALSE, <<>>, Panic("index out of range"))
       ELSE LET state == staging
                currentLine == At(state.StageableLines, state.SelectedLine)
            IN  \E hunkPatch \in
                    {ObtainPatchForHunk(state.Diff, state.HunkStarts, currentLine)} :
                \E patchWithoutLine \in
                    {ObtainPatchForHunkWithoutLine(state.Diff, currentLine)} :
                IF hunkPatch.kind # "ok"
                THEN ReturnEarly("unstage", hunk, hunkPatch.kind, FALSE, <<>>,
                                 [kind |-> hunkPatch.kind, val |-> hunkPatch.val])
                ELSE IF patchWithoutLine.kind # "ok"
                THEN ReturnEarly("unstage", hunk, patchWithoutLine.kind, FALSE, <<>>,
                                 [kind |-> patchWithoutLine.kind, val |-> patchWithoutLine.val])
                ELSE \E emptyPatch \in {HunkPatchIsEmpty(patchWithoutLine.val)} :
                         \E oks \in ApplyAnswers(IF hunk \/ emptyPatch THEN 1 ELSE 3) :
                         \E r \in {ResetProtocol(hunk, emptyPatch, hunkPatch.val,
                                                 patchWithoutLine.val, oks)} :
                                IF r.refresh
                                THEN RefreshAfter("unstage", hunk, emptyPatch, r.calls)
                                ELSE ReturnEarly("unstage", hunk, "ok", emptyPatch,
                                                 r.calls, r.result)
    /\ UNCHANGED pureVars

Next ==
    \/ RefreshStagingPanel
    \/ handleStagingEscape
    \/ \E prev \in BOOLEAN : handleCycleHunk(prev)
    \/ \E prev \in BOOLEAN : handleCycleLine(prev)
    \/ \E hunk \in BOOLEAN : handleStageLineOrHunk(hunk)
    \/ \E hunk \in BOOLEAN : handleResetLineOrHunk(hunk)

Spec == Init /\ [][Next]_vars

\* ------------------------------------------------------------------------
\* The patch modifier applied to every diff and line of the bounded sets
\* ------------------------------------------------------------------------

PureInit ==
    /\ staging = NilStaging
    /\ viewLines = 0
    /\ focus = NoFocus
    /\ lastOp = NoOp
    /\ pdiff \in PureDiffs
    /\ pline \in BodyLineIndices(pdiff)
    /\ pres = NoResult

\* the hunk starts the parser hands out for a diff: none when it fails
HunkStartsOf(patch) ==
    WithValue(ParsePatch(patch), LAMBDA p :
        IF p.kind = "ok" THEN p.val.hunkStarts ELSE <<>>)

\* the diffs with a broken or missing "@@" line, with every line of a hunk
\* and, where there is no hunk, every line
MalformedInit ==
    /\ staging = NilStaging
    /\ viewLines = 0
    /\ focus = NoFocus
    /\ lastOp = NoOp
    /\ pdiff \in MalformedDiffs
    /\ pline \in (IF HunkStartsOf(pdiff) = <<>> THEN LineIndices(pdiff)
                  ELSE BodyLineIndices(pdiff))
    /\ pres = NoResult

ExtractHunk ==
    /\ pres' = [op |-> "extractHunk",
                res |-> ObtainPatchForHunk(pdiff, HunkStartsOf(pdiff), pline)]
    /\ UNCHANGED <<pdiff, pline>>
    /\ UNCHANGED sessionVars

ExtractLine ==
    /\ pres' = [op |-> "extractLine", res |-> ObtainPatchForLine(pdiff, pline)]
    /\ UNCHANGED <<pdiff, pline>>
    /\ UNCHANGED sessionVars

ExtractHunkWithoutLine ==
    /\ pres' = [op |-> "extractHunkWithoutLine",
                res |-> ObtainPatchForHunkWithoutLine(pdiff, pline)]
    /\ UNCHANGED <<pdiff, pline>>
    /\ UNCHANGED sessionVars

\* what handleResetLineOrHunk computes before its first apply call: the
\* line-removed patch and whether it is empty
IsEmptyWithoutLine ==
    /\ \E patchWithoutLine \in {ObtainPatchForHunkWithoutLine(pdiff, pline)} :
          pres' = [op |-> "isEmptyWithoutLine",
                   res |-> IF patchWithoutLine.kind # "ok" THEN patchWithoutLine
                           ELSE Ok(HunkPatchIsEmpty(patchWithoutLine.val))]
    /\ UNCHANGED <<pdiff, pline>>
    /\ UNCHANGED sessionVars

PureNext ==
    \/ ExtractHunk
    \/ ExtractLine
    \/ ExtractHunkWithoutLine
    \/ IsEmptyWithoutLine

SpecPure == PureInit /\ [][PureNext]_vars

SpecMalformed == MalformedInit /\ [][PureNext]_vars

\* ------------------------------------------------------------------------
\* What the properties of the patch modifier speak about
\* ------------------------------------------------------------------------

\* a sequence of lines without the empty lines at its end
RECURSIVE DropEmptyTail(_)
DropEmptyTail(lines) ==
    IF Len(lines) > 0 /\ lines[Len(lines)] = <<>>
    THEN DropEmptyTail(SubSeq(lines, 1, Len(lines) - 1))
    ELSE lines

IsHunkStart(lines, i) == HasPrefix(At(lines, i), AtAt)

\* number of lines of the file header
HeaderLen(lines) ==
    CHOOSE i \in 0..(Len(lines) - 1) :
        IsHunkStart(lines, i) /\ \A k \in 0..(i - 1) : ~IsHunkStart(lines, k)

\* index of the "@@" line of the hunk that contains line i
EnclosingStart(lines, i) ==
    CHOOSE h \in 0..i : IsHunkStart(lines, h) /\ \A k \in (h + 1)..i : ~IsHunkStart(lines, k)

\* index one past the last line of the hunk that contains line i
EnclosingEnd(lines, i) ==
    CHOOSE e \in (i + 1)..Len(lines) :
        /\ e = Len(lines) \/ IsHunkStart(lines, e)
        /\ \A k \in (i + 1)..(e - 1) : ~IsHunkStart(lines, k)

\* the new-file line count d of a header "@@ -a,b +c,d @@", 1 when ",d" is
\* left out
NewCountOf(header) ==
    LET p == CHOOSE i \in 4..Len(header) : header[i] = "+" /\ header[i - 1] = " "
        e == DigitRunEnd(header, p + 1)
    IN  IF e < Len(header) /\ header[e + 1] = ","
        THEN Atoi(SubSeq(header, e + 2, DigitRunEnd(header, e + 2)))
        ELSE 1

\* the old-file line count b of a header "@@ -a,b +c,d @@"
OldCountOf(header) ==
    LET e == DigitRunEnd(header, 5)
    IN  IF header[e + 1] = ","
        THEN Atoi(SubSeq(header, e + 2, DigitRunEnd(header, e + 2)))
        ELSE 1

\* lines from..to-1 of a hunk as a patch for line `target` alone has them:
\* the target as it is, any other removal as context, no other addition
RECURSIVE OnlyTargetBody(_, _, _, _)
OnlyTargetBody(lines, from, to, target) ==
    IF from >= to THEN <<>>
    ELSE LET line == At(lines, from)
             kept == IF from = target THEN <<line>>
                     ELSE IF line[1] = "-" THEN << <<" ">> \o Tail(line) >>
                     ELSE IF line[1] = "+" THEN <<>>
                     ELSE <<line>>
         IN  kept \o OnlyTargetBody(lines, from + 1, to, target)

\* lines from..to-1 of a hunk as a patch without line `target` has them: a
\* removed target as context, an added target left out, the rest as it is
RECURSIVE WithoutTargetBody(_, _, _, _)
WithoutTargetBody(lines, from, to, target) ==
    IF from >= to THEN <<>>
    ELSE LET line == At(lines, from)
             kept == IF from # target THEN <<line>>
                     ELSE IF line[1] = "-" THEN << <<" ">> \o Tail(line) >>
                     ELSE IF line[1] = "+" THEN <<>>
                     ELSE <<line>>
         IN  kept \o WithoutTargetBody(lines, from + 1, to, target)

\* number of lines from..to-1, other than `skip`, that begin with `mark`
CountMarked(lines, from, to, mark, skip) ==
    Cardinality({k \in from..(to - 1) : k # skip /\ At(lines, k)[1] = mark})

\* ------------------------------------------------------------------------
\* Properties of the staging panel (checked under Spec)
\* ------------------------------------------------------------------------

\* the line the cursor was on when the last handler started, and the
\* patches for it
PreLine == At(lastOp.pre.StageableLines, lastOp.pre.SelectedLine)

PreHunkPatch ==
    ObtainPatchForHunk(lastOp.pre.Diff, lastOp.pre.HunkStarts, PreLine).val

PrePatchWithoutLine == ObtainPatchForHunkWithoutLine(lastOp.pre.Diff, PreLine).val

Refreshes == lastOp.filesRefreshed + lastOp.panelRefreshed

\* the last handler was an unstage of a line whose two patches were built
\* and whose line-removed patch is not empty
UnstageLineCase ==
    /\ lastOp.op = "unstage"
    /\ ~lastOp.hunk
    /\ lastOp.extract = "ok"
    /\ ~lastOp.emptyPatch

\* the calls that succeeded are a reverse apply of a patch and a forward
\* apply of the same patch to the same target, and the session is the one
\* from before the handler
StateRestored ==
    /\ Len(lastOp.calls) = 3
    /\ lastOp.calls[1].ok /\ ~lastOp.calls[2].ok /\ lastOp.calls[3].ok
    /\ lastOp.calls[1].reverse /\ ~lastOp.calls[3].reverse
    /\ lastOp.calls[3].patch = lastOp.calls[1].patch
    /\ lastOp.calls[3].cached = lastOp.calls[1].cached
    /\ staging = lastOp.pre

\* C1: in an unstage of a line with a non-empty line-removed patch, when
\* the reverse apply of the hunk succeeds and the forward apply of the
\* line-removed patch fails, the forward apply of the original hunk patch
\* is attempted exactly once and is the last apply call; if it succeeds the
\* error of the failed forward apply is returned as an ordinary error with
\* the state restored, and the error of the rollback is reported only if
\* the rollback failed.
RollbackOnceThenOriginalError ==
    (UnstageLineCase /\ Len(lastOp.calls) >= 2
        /\ lastOp.calls[1].ok /\ ~lastOp.calls[2].ok) =>
        /\ Len(lastOp.calls) = 3
        /\ lastOp.calls[3].patch = PreHunkPatch
        /\ ~lastOp.calls[3].reverse
        /\ lastOp.calls[3].ok => (lastOp.result = Err("ApplyError2") /\ StateRestored)
        /\ lastOp.result.val = "ApplyError3" => ~lastOp.calls[3].ok

\* C2: in the unstage flow, whenever the rollback apply of the hunk patch
\* fails, the handler ends in a fatal outcome, never in a returned error
\* value and never in a refresh.
RollbackFailureIsFatal ==
    (lastOp.op = "unstage" /\ Len(lastOp.calls) = 3 /\ ~lastOp.calls[3].ok) =>
        /\ lastOp.result.kind = "panic"
        /\ Refreshes = 0

\* C3: in every reachable state with an active session, SelectedLine is an
\* index into StageableLines: 0 <= SelectedLine <= len(StageableLines) - 1.
SelectedLineIsValidIndex ==
    staging.active => SelectedInRange(staging)

\* C4: after a refresh whose parsed diff has no stageable line there is no
\* session, whether or not there was one before.
NoStageableLinesMeansNoSession ==
    (lastOp.panelRefreshed = 1 /\ lastOp.parse = "ok" /\ lastOp.nstage = 0) =>
        ~staging.active

\* C5: in unstage, when the reverse apply of the hunk patch fails, its error
\* is returned, no other apply call is made, nothing is refreshed and the
\* session is the one from before.
ReverseApplyFailureAborts ==
    (lastOp.op = "unstage" /\ Len(lastOp.calls) >= 1 /\ ~lastOp.calls[1].ok) =>
        /\ lastOp.calls[1].reverse
        /\ Len(lastOp.calls) = 1
        /\ lastOp.result = Err("ApplyError1")
        /\ Refreshes = 0
        /\ staging = lastOp.pre

ReverseApplyFailureWitness ==
    /\ lastOp.op = "unstage"
    /\ Len(lastOp.calls) = 1
    /\ lastOp.calls[1].reverse
    /\ ~lastOp.calls[1].ok
    /\ lastOp.result = Err("ApplyError1")

\* C6: in unstage, with scope Hunk or an empty line-removed patch exactly
\* one apply call is made, the hunk patch in reverse, and no forward apply;
\* otherwise the reverse apply of the hunk patch comes first and the
\* forward apply of the line-removed patch after it; a refresh is called
\* only after every apply call of the handler has succeeded.
UnstageApplyOrder ==
    (lastOp.op = "unstage" /\ lastOp.extract = "ok") =>
        /\ Len(lastOp.calls) >= 1
        /\ lastOp.calls[1].reverse
        /\ lastOp.calls[1].patch = PreHunkPatch
        /\ (lastOp.hunk \/ lastOp.emptyPatch) =>
               /\ Len(lastOp.calls) = 1
               /\ \A k \in 1..Len(lastOp.calls) : lastOp.calls[k].reverse
        /\ ~(lastOp.hunk \/ lastOp.emptyPatch) =>
               /\ lastOp.calls[1].ok => Len(lastOp.calls) >= 2
               /\ Len(lastOp.calls) >= 2 =>
                      /\ lastOp.calls[1].ok
                      /\ ~lastOp.calls[2].reverse
                      /\ lastOp.calls[2].patch = PrePatchWithoutLine
        /\ Refreshes > 0 => \A k \in 1..Len(lastOp.calls) : lastOp.calls[k].ok

\* a line was unstaged with both apply calls and the refresh
UnstageLineWitness ==
    /\ UnstageLineCase
    /\ Len(lastOp.calls) = 2
    /\ lastOp.calls[1].ok /\ lastOp.calls[2].ok
    /\ lastOp.panelRefreshed = 1

\* a hunk was unstaged with its one apply call and the refresh
UnstageHunkWitness ==
    /\ lastOp.op = "unstage"
    /\ lastOp.hunk
    /\ ~lastOp.emptyPatch
    /\ Len(lastOp.calls) = 1
    /\ lastOp.calls[1].ok
    /\ lastOp.panelRefreshed = 1

RECURSIVE CycleLineTimes(_, _, _)
CycleLineTimes(st, prev, k) ==
    IF k = 0 THEN <<>>
    ELSE LET i == CycleLineIndex(st, prev)
         IN  <<i>> \o CycleLineTimes([st EXCEPT !.SelectedLine = i], prev, k - 1)

\* C11: cycleLine on a session with stageable lines returns no error and
\* moves the cursor one position in its direction, wrapping past either
\* end; from any cursor position, len(StageableLines) calls in the same
\* direction visit every stageable line once and end on the starting index.
CycleLineIsCircular ==
    /\ (lastOp.op = "cycleLine" /\ Len(lastOp.pre.StageableLines) > 0) =>
           LET n == Len(lastOp.pre.StageableLines)
           IN  /\ lastOp.result = Nil
               /\ staging.SelectedLine =
                      (lastOp.pre.SelectedLine + (IF lastOp.hunk THEN n - 1 ELSE 1)) % n
    /\ (staging.active /\ SelectedInRange(staging)) =>
           \A prev \in BOOLEAN :
               LET n == Len(staging.StageableLines)
                   visited == CycleLineTimes(staging, prev, n)
               IN  /\ visited[n] = staging.SelectedLine
                   /\ {visited[k] : k \in 1..n} = 0..(n - 1)

\* cycleLine has wrapped from the last stageable line to the first
CycleLineWrapWitness ==
    /\ lastOp.op = "cycleLine"
    /\ ~lastOp.hunk
    /\ lastOp.result = Nil
    /\ Len(staging.StageableLines) >= 3
    /\ lastOp.pre.SelectedLine = Len(staging.StageableLines) - 1
    /\ staging.SelectedLine = 0

\* the cursor after each of k calls of handleCycleHunk in one direction
RECURSIVE CycleHunkTimes(_, _, _)
CycleHunkTimes(st, prev, k) ==
    IF k = 0 THEN <<>>
    ELSE LET i == CycleHunkIndex(st, prev)
         IN  <<i>> \o CycleHunkTimes([st EXCEPT !.SelectedLine = i], prev, k - 1)

\* index of the first stageable line of the hunk that holds the cursor
FirstStageableOfHunk(st) ==
    LET cur == At(st.StageableLines, st.SelectedLine)
        hs == CHOOSE h \in 1..Len(st.HunkStarts) :
                  /\ st.HunkStarts[h] < cur
                  /\ \A k \in 1..Len(st.HunkStarts) :
                         st.HunkStarts[k] < cur => st.HunkStarts[k] <= st.HunkStarts[h]
    IN  CHOOSE i \in 0..(Len(st.StageableLines) - 1) :
            /\ At(st.StageableLines, i) > st.HunkStarts[hs]
            /\ \A k \in 0..(i - 1) : At(st.StageableLines, k) < st.HunkStarts[hs]

\* every hunk of the session holds a stageable line
EveryHunkHasStageableLine(st) ==
    \A h \in 1..Len(st.HunkStarts) :
        \E i \in 1..Len(st.StageableLines) :
            /\ st.StageableLines[i] > st.HunkStarts[h]
            /\ h < Len(st.HunkStarts) => st.StageableLines[i] < st.HunkStarts[h + 1]

\* C12 as stated: from any cursor position of an active session,
\* len(HunkStarts) calls of cycleHunk in the same direction end on the
\* starting SelectedLine.
CycleHunkReturnsToStart ==
    (staging.active /\ SelectedInRange(staging)) =>
        \A prev \in BOOLEAN :
            LET n == Len(staging.HunkStarts)
            IN  CycleHunkTimes(staging, prev, n)[n] = staging.SelectedLine

\* C12 amended: in a session whose hunks all hold a stageable line, every
\* call of cycleHunk leaves the cursor on the first stageable line of a
\* hunk, and from any cursor position len(HunkStarts) calls in the same
\* direction end on the first stageable line of the hunk that held the
\* cursor at the start.
CycleHunkReturnsToHunkFirstLine ==
    /\ (lastOp.op = "cycleHunk" /\ lastOp.result = Nil
           /\ EveryHunkHasStageableLine(staging)) =>
           staging.SelectedLine = FirstStageableOfHunk(staging)
    /\ (staging.active /\ SelectedInRange(staging)
           /\ EveryHunkHasStageableLine(staging)) =>
           \A prev \in BOOLEAN :
               LET n == Len(staging.HunkStarts)
               IN  CycleHunkTimes(staging, prev, n)[n] = FirstStageableOfHunk(staging)

\* cycleHunk has been called in a session of two hunks with the cursor
\* below the first stageable line of its hunk
CycleHunkWitness ==
    /\ lastOp.op = "cycleHunk"
    /\ lastOp.result = Nil
    /\ Len(staging.HunkStarts) = 2
    /\ lastOp.pre.SelectedLine # FirstStageableOfHunk(lastOp.pre)
    /\ FirstStageableOfHunk(staging) # FirstStageableOfHunk(lastOp.pre)

\* C16: after a refresh that parsed a diff with stageable lines, the new
\* SelectedLine is 0 if there was no session before; if there was one it is
\* the previous SelectedLine when that is a valid index into the new
\* StageableLines, and the last valid index len(StageableLines) - 1
\* otherwise.
RefreshKeepsOrClampsCursor ==
    (lastOp.panelRefreshed = 1 /\ lastOp.parse = "ok" /\ lastOp.nstage > 0) =>
        LET n == Len(staging.StageableLines)
            before == lastOp.pre
        IN  /\ staging.active
            /\ staging.SelectedLine =
                   IF ~before.active THEN 0
                   ELSE IF 0 <= before.SelectedLine /\ before.SelectedLine <= n - 1
                        THEN before.SelectedLine
                        ELSE n - 1

\* C17: a refresh during which the diff parser fails returns that error to
\* its caller; it does not return success.
ParserFailureIsReported ==
    (lastOp.panelRefreshed = 1 /\ lastOp.parse = "err") =>
        lastOp.result.kind = "err"

FocusComputed ==
    /\ lastOp.result = Nil
    /\ \/ lastOp.op \in {"cycleLine", "cycleHunk"}
       \/ lastOp.panelRefreshed = 1 /\ lastOp.parse = "ok" /\ lastOp.nstage > 0

\* the hunk starts of the session below / above the selected line
StartsBelow(st) ==
    {st.HunkStarts[k] : k \in 1..Len(st.HunkStarts)}
        \cap 0..At(st.StageableLines, st.SelectedLine)

StartsAbove(st) ==
    {st.HunkStarts[k] : k \in 1..Len(st.HunkStarts)}
        \ 0..At(st.StageableLines, st.SelectedLine)

\* top of the focus region: 0 in the first hunk, else the hunk's "@@" line
TopLineOf(st) ==
    LET hs == CHOOSE h \in StartsBelow(st) : \A k \in StartsBelow(st) : k <= h
    IN  IF hs = st.HunkStarts[1] THEN 0 ELSE hs

\* last line of the enclosing hunk: the line before the next hunk start, or
\* the last of the lines the view holds
HunkBottomOf(st, linesHeight) ==
    IF StartsAbove(st) = {} THEN linesHeight - 1
    ELSE (CHOOSE h \in StartsAbove(st) : \A k \in StartsAbove(st) : h <= k) - 1

HunkIndexOf(st, line) ==
    (CHOOSE h \in 1..Len(st.HunkStarts) :
         /\ st.HunkStarts[h] < line
         /\ h < Len(st.HunkStarts) => line < st.HunkStarts[h + 1]) - 1

NavigationChangesOnlyCursor ==
    lastOp.op \in {"cycleLine", "cycleHunk"} =>
        /\ staging = [lastOp.pre EXCEPT !.SelectedLine = staging.SelectedLine]
        /\ staging.Diff = lastOp.pre.Diff
        /\ staging.HunkStarts = lastOp.pre.HunkStarts
        /\ staging.StageableLines = lastOp.pre.StageableLines
        /\ lastOp.calls = <<>>
        /\ Refreshes = 0

\* a navigation call has moved the cursor
NavigationMovedWitness ==
    /\ lastOp.op \in {"cycleLine", "cycleHunk"}
    /\ lastOp.result = Nil
    /\ staging.SelectedLine # lastOp.pre.SelectedLine
    /\ Len(staging.Diff) > 0

\* ------------------------------------------------------------------------
\* Properties of the patch modifier (checked under SpecPure)
\* ------------------------------------------------------------------------

StageableSet(patch) ==
    LET r == ParsePatch(patch).val.stageableLines
    IN  {r[k] : k \in 1..Len(r)}

\* C8: for every diff and every line index inside a hunk, extractLine
\* returns the file header followed by the enclosing hunk with the target
\* line kept as it is, every other '-' line turned into a context line,
\* every other '+' line left out and all other lines unchanged, and the
\* new-file line count of the hunk header is the original count plus the
\* number of other '-' lines minus the number of other '+' lines.  (The
\* text may end with empty lines: the terminator the source appends.)
ExtractLineKeepsOnlyTarget ==
    pres.op = "extractLine" =>
        LET lines == TextLines(pdiff)
            hl == HeaderLen(lines)
            hs == EnclosingStart(lines, pline)
            he == EnclosingEnd(lines, pline)
            out == DropEmptyTail(Split(pres.res.val))
            body == OnlyTargetBody(lines, hs + 1, he, pline)
        IN  /\ pres.res.kind = "ok"
            /\ Len(out) = hl + 1 + Len(body)
            /\ Slice(out, 0, hl) = Slice(lines, 0, hl)
            /\ HasPrefix(At(out, hl), AtAt)
            /\ Slice(out, hl + 1, Len(out)) = body
            /\ NewCountOf(At(out, hl)) =
                   NewCountOf(At(lines, hs))
                       + CountMarked(lines, hs + 1, he, "-", pline)
                       - CountMarked(lines, hs + 1, he, "+", pline)

\* C9: for every diff and every line index inside a hunk,
\* extractHunkWithoutLine rewrites only the target line (a '-' target
\* becomes a context line and adds 1 to the new-file count, a '+' target is
\* left out and subtracts 1) and every other line of the enclosing hunk
\* appears unchanged and in the same order.
ExtractHunkWithoutLineRewritesOnlyTarget ==
    pres.op = "extractHunkWithoutLine" =>
        LET lines == TextLines(pdiff)
            hl == HeaderLen(lines)
            hs == EnclosingStart(lines, pline)
            he == EnclosingEnd(lines, pline)
            out == DropEmptyTail(Split(pres.res.val))
            body == WithoutTargetBody(lines, hs + 1, he, pline)
            target == At(lines, pline)
            delta == IF target[1] = "-" THEN 1 ELSE IF target[1] = "+" THEN 0 - 1 ELSE 0
        IN  /\ pres.res.kind = "ok"
            /\ Len(out) = hl + 1 + Len(body)
            /\ Slice(out, 0, hl) = Slice(lines, 0, hl)
            /\ HasPrefix(At(out, hl), AtAt)
            /\ Slice(out, hl + 1, Len(out)) = body
            /\ NewCountOf(At(out, hl)) = NewCountOf(At(lines, hs)) + delta

\* C10: for every diff, its hunk starts and every stageable line,
\* extractHunk returns exactly the file header lines followed by exactly
\* the lines of the one hunk that contains the line, from its '@@' line up
\* to the next hunk start or the end of the diff, unmodified, with exactly
\* one '@@' line; for the last hunk as for the inner ones.
ExtractHunkIsHeaderPlusOneHunk ==
    (pres.op = "extractHunk" /\ pline \in StageableSet(pdiff)) =>
        LET lines == TextLines(pdiff)
            hl == HeaderLen(lines)
            hs == EnclosingStart(lines, pline)
            he == EnclosingEnd(lines, pline)
            out == Split(pres.res.val)
        IN  /\ pres.res.kind = "ok"
            /\ pres.res.val = DiffText(Slice(lines, 0, hl) \o Slice(lines, hs, he))
            /\ Cardinality({k \in 1..Len(out) : HasPrefix(out[k], AtAt)}) = 1

\* an inner hunk and the last hunk of a diff of two hunks have been extracted
ExtractHunkInnerWitness ==
    /\ pres.op = "extractHunk"
    /\ pres.res.kind = "ok"
    /\ pline \in StageableSet(pdiff)
    /\ Len(ParsePatch(pdiff).val.hunkStarts) = 2
    /\ pline < At(ParsePatch(pdiff).val.hunkStarts, 1)

ExtractHunkLastWitness ==
    /\ pres.op = "extractHunk"
    /\ pres.res.kind = "ok"
    /\ pline \in StageableSet(pdiff)
    /\ Len(ParsePatch(pdiff).val.hunkStarts) = 2
    /\ pline > At(ParsePatch(pdiff).val.hunkStarts, 1)

\* position of the "+" of the new-file range of a header "@@ -a,b +c,d @@"
PlusPos(header) ==
    CHOOSE i \in 4..Len(header) : header[i] = "+" /\ header[i - 1] = " "

\* position of the last digit of the new-file start c
NewStartEnd(header) == DigitRunEnd(header, PlusPos(header) + 1)

\* position of the blank in front of the closing "@@"
ClosePos(header) ==
    CHOOSE q \in (NewStartEnd(header) + 1)..(Len(header) - 2) :
        /\ header[q] = " " /\ header[q + 1] = "@" /\ header[q + 2] = "@"
        /\ \A k \in (NewStartEnd(header) + 1)..(q - 1) :
               ~(header[k] = " " /\ header[k + 1] = "@" /\ header[k + 2] = "@")

\* header2 is header with the new-file count d replaced by d + lineChanges
\* (a count of 1 may be left out) and every other character kept
OnlyNewCountChanged(header, header2, lineChanges) ==
    LET front == SubSeq(header, 1, NewStartEnd(header))
        back == SubSeq(header, ClosePos(header), Len(header))
        d2 == NewCountOf(header) + lineChanges
    IN  \/ header2 = front \o <<",">> \o Itoa(d2) \o back
        \/ d2 = 1 /\ header2 = front \o back

\* the lineChanges the rewrite of the hunk around `target` accumulates
LineChangesOf(op, lines, target) ==
    LET hs == EnclosingStart(lines, target)
        he == EnclosingEnd(lines, target)
        mark == At(lines, target)[1]
    IN  IF op = "extractLine"
        THEN CountMarked(lines, hs + 1, he, "-", target)
                 - CountMarked(lines, hs + 1, he, "+", target)
        ELSE IF mark = "-" THEN 1 ELSE IF mark = "+" THEN 0 - 1 ELSE 0

\* C13: the hunk header that extractLine and extractHunkWithoutLine put
\* out is the header of the enclosing hunk with only the new-file line
\* count d changed to d + lineChanges; a, b, c and the text after the
\* closing "@@" are kept character by character.
HeaderRewriteChangesOnlyNewCount ==
    (pres.op \in {"extractLine", "extractHunkWithoutLine"} /\ pres.res.kind = "ok") =>
        LET lines == TextLines(pdiff)
            hl == HeaderLen(lines)
            header == At(lines, EnclosingStart(lines, pline))
            header2 == At(Split(pres.res.val), hl)
        IN  OnlyNewCountChanged(header, header2, LineChangesOf(pres.op, lines, pline))

\* the enclosing hunk's "@@" line has no number right before a closing "@@"
NoCountField(header) ==
    \A i \in 1..(Len(header) - 3) :
        ~(IsDigit(header[i]) /\ header[i + 1] = " "
              /\ header[i + 2] = "@" /\ header[i + 3] = "@")

HasHunkLine(patch) ==
    \E i \in 1..Len(TextLines(patch)) : HasPrefix(TextLines(patch)[i], AtAt)

\* C14: when the "@@" line of the enclosing hunk has no number right before
\* a closing "@@", extractLine and extractHunkWithoutLine return an error
\* value: they return no patch and do not end the program.
MalformedHeaderIsReturnedError ==
    (/\ pres.op \in {"extractLine", "extractHunkWithoutLine"}
     /\ HasHunkLine(pdiff)
     /\ NoCountField(At(TextLines(pdiff), EnclosingStart(TextLines(pdiff), pline)))) =>
        pres.res.kind = "err"

\* C15: when no line of the diff begins with "@@", extractHunk, extractLine
\* and extractHunkWithoutLine each return the error value of a malformed
\* patch.
NoHunkLineIsReturnedError ==
    (pres.op \in {"extractHunk", "extractLine", "extractHunkWithoutLine"}
         /\ ~HasHunkLine(pdiff)) =>
        pres.res = Err("CantFindHunks")

\* C18: for every diff and every stageable line of it, the patch
\* extractHunkWithoutLine returns for the line is empty exactly when the
\* line is the only '+' or '-' line of its hunk; the "---" and "+++" lines
\* of the file header, which every such patch begins with, do not count.
EmptyIffTargetIsOnlyChange ==
    (pres.op = "isEmptyWithoutLine" /\ pline \in StageableSet(pdiff)) =>
        LET lines == TextLines(pdiff)
            hs == EnclosingStart(lines, pline)
            he == EnclosingEnd(lines, pline)
            others == CountMarked(lines, hs + 1, he, "+", pline)
                          + CountMarked(lines, hs + 1, he, "-", pline)
        IN  /\ pres.res.kind = "ok"
            /\ pres.res.val = (others = 0)
            /\ \E k \in 1..HeaderLen(lines) : HasPrefix(lines[k], <<"-">>)

\* the patch without the only changed line of a hunk was found empty
EmptyWithoutLineWitness ==
    /\ pres.op = "isEmptyWithoutLine"
    /\ pline \in StageableSet(pdiff)
    /\ pres.res = Ok(TRUE)

\* number of lines from..to-1 that begin with one of `marks`
CountBody(lines, from, to, marks) ==
    Cardinality({k \in from..(to - 1) : At(lines, k)[1] \in marks})

\* the counts of the header of the hunk lines[hs..he-1] are those of its body
HunkIsConsistent(lines, hs, he) ==
    /\ OldCountOf(At(lines, hs)) = CountBody(lines, hs + 1, he, {" ", "-"})
    /\ NewCountOf(At(lines, hs)) = CountBody(lines, hs + 1, he, {" ", "+"})

\* C22: when the header counts of the enclosing hunk agree with its body,
\* the patch extractLine or extractHunkWithoutLine returns for a stageable
\* line agrees with itself too: the old count, unchanged, is the number of
\* context and '-' lines of the body put out, and the rewritten new count
\* is the number of its context and '+' lines.
SubPatchCountsAreConsistent ==
    (/\ pres.op \in {"extractLine", "extractHunkWithoutLine"}
     /\ pres.res.kind = "ok"
     /\ pline \in StageableSet(pdiff)
     /\ HunkIsConsistent(TextLines(pdiff), EnclosingStart(TextLines(pdiff), pline),
                         EnclosingEnd(TextLines(pdiff), pline))) =>
        LET lines == TextLines(pdiff)
            hl == HeaderLen(lines)
            out == DropEmptyTail(Split(pres.res.val))
        IN  /\ OldCountOf(At(out, hl)) =
                   OldCountOf(At(lines, EnclosingStart(lines, pline)))
            /\ HunkIsConsistent(out, hl, Len(out))

====
